---- MODULE Spec2Model ----
(***************************************************************************)
(* A model of metro_parser: MetroParser.collect_data fetches the directory *)
(* of trade centers, keeps those of the target cities, fans out one        *)
(* _fetch_products_for_tradecenter task per kept id with asyncio.gather,   *)
(* and main then runs dump_data.                                           *)
(*                                                                         *)
(* Tasks are cooperative: a step of the model is the code one task runs    *)
(* between two suspensions on network I/O.  A nullable JSON number is      *)
(* written Null (Python None) or Some(n).  City names are transliterated.  *)
(***************************************************************************)
EXTENDS Integers, Sequences, FiniteSets

VARIABLES
    mainPc,                    \* position of main(): main.py:18-24
    collectPc,                 \* position of collect_data
    session,                   \* the ClientSession of collect_data
    all_tradecenters_response, \* the directory response, once received
    filtered_tradecenter_ids,  \* the tuple built at metro_parser_class.py:127
    all_products_in_store_query, \* variables.storeId of the deep copy
    tasks,                     \* the tasks gather wraps the fetch coroutines in
    collected_data,            \* MetroParser.collected_data
    error_log,                 \* what l.error has written
    requests,                  \* the requests issued on the session, in order
    data_file,                 \* data/collected_data.json
    ALL_PRODUCTS_IN_STORE_QUERY, \* the module-level query template, config.py:25
    query_shares_template      \* whether the dict the fetchers write into
                               \* shares its "variables" with the template

vars == <<mainPc, collectPc, session, all_tradecenters_response,
          filtered_tradecenter_ids, all_products_in_store_query, tasks,
          collected_data, error_log, requests, data_file,
          ALL_PRODUCTS_IN_STORE_QUERY, query_shares_template>>

template_vars == <<ALL_PRODUCTS_IN_STORE_QUERY, query_shares_template>>

----------------------------------------------------------------------------
(* Bounds of the model *)

MaxStores == 2      \* entries in a directory response
MaxStoreId == 3     \* store ids are 1 .. MaxStoreId
MaxProducts == 2    \* products in a response (price normalisation)
MaxPrice == 2       \* prices are 0 .. MaxPrice (price normalisation)

----------------------------------------------------------------------------
(* Values *)

Null == <<>>
Some(n) == <<n>>

OK == 200

GQL_MAX_INT == 2147483647

\* MetroGraphQLConstants.ALL_PRODUCTS_IN_STORE_QUERY as the module defines it.
QueryTemplate ==
    [query |-> "query Category",
     variables |-> [storeId |-> Null, slug |-> "kofe", inStock |-> TRUE,
                    from |-> 0, size |-> GQL_MAX_INT]]

\* copy.copy: a new outer dict whose "variables" is the template's own.
ShallowCopyShares == TRUE

\* copy.deepcopy: the copy shares no dict with the template.
DeepCopyShares == FALSE

cities == {"Moskva", "Sankt-Peterburg"}

StoreIds == 1 .. MaxStoreId

SeqsUpTo(S, n) == UNION {[1 .. k -> S] : k \in 0 .. n}

\* A response body: text that json() parses to the expected shape, with the
\* list it carries, or text that it does not (no JSON, or a key missing).
JsonBody(data) == [json |-> TRUE, data |-> data]

Malformed == [json |-> FALSE, data |-> <<>>]

NoResponse == [status |-> 0, body |-> Malformed]

\* The directory the GET can answer with.  A store lies in one city: stores
\* 1, 4, .. in Moskva, stores 2, 5, .. in Sankt-Peterburg, stores 3, 6, .. in
\* Paris.  The same store may be listed more than once.
CityOf(store_id) == <<"Moskva", "Sankt-Peterburg", "Paris">>[((store_id - 1) % 3) + 1]

StoreLocations == {[store_id |-> n, city |-> CityOf(n)] : n \in StoreIds}

Directories == {JsonBody(d) : d \in SeqsUpTo(StoreLocations, MaxStores)}

DirectoryStatuses == {OK, 500}

Product(n, stocks) ==
    [id |-> n, name |-> "kofe " \o n, url |-> "/p/" \o n, stocks |-> stocks,
     manufacturer |-> [name |-> "brand " \o n]]

Prices(price, old_price) == [prices |-> [price |-> price, old_price |-> old_price]]

\* The products the catalog holds in a collection run: one at its regular
\* price and one discounted.  A response lists any of them, each at most
\* once, in any order.
CatalogProducts ==
    {Product("a", <<Prices(Some(2), Null)>>),
     Product("b", <<Prices(Some(1), Some(2))>>)}

\* A product without any stock record: stocks[0] raises IndexError.
Unstocked == Product("c", <<>>)

CatalogBodies ==
    {JsonBody(d) : d \in {s \in SeqsUpTo(CatalogProducts, Cardinality(CatalogProducts)) :
                             \A m, n \in DOMAIN s : m # n => s[m] # s[n]}}
        \cup {JsonBody(<<Product("a", <<Prices(Some(2), Null)>>), Unstocked>>)}
        \cup {Malformed}

\* What a store answers with under another status: an error page, or JSON.
ErrorBodies == {Malformed, JsonBody(<<Product("a", <<Prices(Some(2), Null)>>)>>)}

StoreStatuses == {OK, 404}

\* The products price normalisation is checked on: every pair of a nullable
\* price and a nullable old_price in stocks[0], followed by a second stock
\* record, which the code does not read.
NullablePrices == {Null} \cup {Some(n) : n \in 0 .. MaxPrice}

PricedProducts ==
    {Product("a", <<Prices(p, o), Prices(Some(MaxPrice), Some(0))>>) :
        p \in NullablePrices, o \in NullablePrices}

PricedBodies == {JsonBody(d) : d \in SeqsUpTo(PricedProducts, MaxProducts)}

----------------------------------------------------------------------------
(* _fetch_products_for_tradecenter, the pure part *)

\* f"tradecenter {tradecenter_id}"
Key(tradecenter_id) == <<"tradecenter", tradecenter_id>>

\* The branches of the conditional expression exchanged.
regular_priceSwapped(product) ==
    IF product.stocks[1].prices.old_price = Null
    THEN product.stocks[1].prices.old_price
    ELSE product.stocks[1].prices.price

regular_price(product) ==
    IF product.stocks[1].prices.old_price = Null
    THEN product.stocks[1].prices.price
    ELSE product.stocks[1].prices.old_price

promotional_price(product) ==
    IF product.stocks[1].prices.old_price = Null
    THEN product.stocks[1].prices.old_price
    ELSE product.stocks[1].prices.price

ProductRecord(product) ==
    [id |-> product.id,
     name |-> product.name,
     url |-> "https://online.metro-cc.ru" \o product.url,
     regular_price |-> regular_price(product),
     promotional_price |-> promotional_price(product),
     brand |-> product.manufacturer.name]

\* A comprehension that yields the records last product first.
ProductRecordsReversed(products) ==
    [k \in 1 .. Len(products) |-> ProductRecord(products[Len(products) + 1 - k])]

\* The list comprehension of lines 61-79, over the products in upstream order.
ProductRecords(products) ==
    [k \in 1 .. Len(products) |-> ProductRecord(products[k])]

\* The comprehension raises (KeyError, IndexError, JSON decode error) unless
\* the body parses and every product has stocks[0].
Parses(body) ==
    /\ body.json
    /\ \A k \in 1 .. Len(body.data) : Len(body.data[k].stocks) >= 1

----------------------------------------------------------------------------
(* collect_data, the pure part *)

\* A filter that compares the city with the first target city only.
RECURSIVE FilterIdsFirstCity(_)
FilterIdsFirstCity(data) ==
    IF data = <<>> THEN <<>>
    ELSE IF Head(data).city = "Moskva"
         THEN <<Head(data).store_id>> \o FilterIdsFirstCity(Tail(data))
         ELSE FilterIdsFirstCity(Tail(data))

\* tuple(tradecenter["store_id"] for tradecenter in data if city in cities)
RECURSIVE FilterIds(_)
FilterIds(data) ==
    IF data = <<>> THEN <<>>
    ELSE IF Head(data).city \in cities
         THEN <<Head(data).store_id>> \o FilterIds(Tail(data))
         ELSE FilterIds(Tail(data))

NewTask(tradecenter_id) ==
    [tradecenter_id |-> tradecenter_id, pc |-> "ready", sent |-> Null,
     response |-> NoResponse]

Settled(t) == t.pc \in {"returned", "raised", "cancelled"}

SetTask(i, t) == [tasks EXCEPT ![i] = t]

----------------------------------------------------------------------------
(* The state after MetroParser() at main.py:18 *)

Init ==
    /\ mainPc = "start"
    /\ collectPc = "idle"
    /\ session = "none"
    /\ all_tradecenters_response = NoResponse
    /\ filtered_tradecenter_ids = <<>>
    /\ all_products_in_store_query = Null
    /\ tasks = <<>>
    /\ collected_data = <<>>
    /\ error_log = {}
    /\ requests = <<>>
    /\ data_file = [written |-> FALSE, content |-> <<>>]
    /\ ALL_PRODUCTS_IN_STORE_QUERY = QueryTemplate
    /\ query_shares_template = DeepCopyShares

----------------------------------------------------------------------------
(* main and collect_data *)

\* main.py:18-21 and metro_parser_class.py:122-125: the session is entered
\* and the directory GET is issued.
StartCollect ==
    /\ mainPc = "start"
    /\ mainPc' = "collect"
    /\ collectPc' = "get"
    /\ session' = "open"
    /\ requests' = Append(requests, [method |-> "GET", storeId |-> Null])
    /\ UNCHANGED <<all_tradecenters_response, filtered_tradecenter_ids,
                   all_products_in_store_query, tasks, collected_data,
                   error_log, data_file, template_vars>>

\* An exception that leaves collect_data with the session never closed, as
\* with a session closed by hand after the gather.
CollectRaisesLeavesOpen ==
    /\ collectPc' = "raised"
    /\ session' = session
    /\ mainPc' = "aborted"

\* An exception leaves collect_data through the session's async with and
\* then leaves main: dump_data is not reached.
CollectRaises ==
    /\ collectPc' = "raised"
    /\ session' = "closed"
    /\ mainPc' = "aborted"

\* collect_data returns to main, which goes on to dump_data.
CollectReturns ==
    /\ collectPc' = "returned"
    /\ session' = "closed"
    /\ mainPc' = "dump"

\* Lines 126-152 on a 200 directory: filter, deep-copy the query template
\* and wrap one fetch coroutine per filtered id in a task.
Launch(body) ==
    /\ filtered_tradecenter_ids' = FilterIds(body)
    /\ all_products_in_store_query' = ALL_PRODUCTS_IN_STORE_QUERY.variables.storeId
    /\ query_shares_template' = DeepCopyShares
    /\ tasks' = [i \in 1 .. Len(FilterIds(body)) |-> NewTask(FilterIds(body)[i])]
    /\ collectPc' = "gather"
    /\ UNCHANGED <<mainPc, session, error_log>>

\* An error branch that raises after logging instead of returning.
DirectoryErrorRaises(status) ==
    /\ error_log' = error_log \cup {[source |-> "collect_data", status |-> status,
                                     tradecenter_id |-> Null, query |-> Null]}
    /\ CollectRaises
    /\ UNCHANGED <<filtered_tradecenter_ids, all_products_in_store_query, tasks,
                   query_shares_template>>

\* Lines 135-142: the directory answered with another status.
DirectoryError(status) ==
    /\ error_log' = error_log \cup {[source |-> "collect_data", status |-> status,
                                     tradecenter_id |-> Null, query |-> Null]}
    /\ CollectReturns
    /\ UNCHANGED <<filtered_tradecenter_ids, all_products_in_store_query, tasks,
                   query_shares_template>>

\* The directory GET completes: lines 125-146.
DirectoryResponse ==
    /\ collectPc = "get"
    /\ \/ /\ all_tradecenters_response' = NoResponse
          /\ CollectRaises
          /\ UNCHANGED <<filtered_tradecenter_ids, all_products_in_store_query,
                         tasks, error_log, query_shares_template>>
       \/ \E status \in DirectoryStatuses, body \in Directories \cup {Malformed} :
            /\ all_tradecenters_response' = [status |-> status, body |-> body]
            /\ IF status = OK
               THEN IF ~body.json
                    THEN /\ CollectRaises
                         /\ UNCHANGED <<filtered_tradecenter_ids,
                                        all_products_in_store_query, tasks,
                                        error_log, query_shares_template>>
                    ELSE Launch(body.data)
               ELSE DirectoryError(status)
    /\ UNCHANGED <<collected_data, requests, data_file,
                   ALL_PRODUCTS_IN_STORE_QUERY>>

----------------------------------------------------------------------------
(* _fetch_products_for_tradecenter *)

\* A first step that sends the query before writing the id into it.
FetchStartStale(i) ==
    /\ tasks[i].pc = "ready"
    /\ \A j \in 1 .. (i - 1) : tasks[j].pc # "ready"
    /\ all_products_in_store_query' = Some(tasks[i].tradecenter_id)
    /\ tasks' = SetTask(i, [tasks[i] EXCEPT !.pc = "awaiting",
                                            !.sent = all_products_in_store_query])
    /\ requests' = Append(requests, [method |-> "POST",
                                     storeId |-> all_products_in_store_query])
    /\ ALL_PRODUCTS_IN_STORE_QUERY' =
          IF query_shares_template
          THEN [ALL_PRODUCTS_IN_STORE_QUERY EXCEPT
                   !.variables.storeId = Some(tasks[i].tradecenter_id)]
          ELSE ALL_PRODUCTS_IN_STORE_QUERY
    /\ UNCHANGED <<mainPc, collectPc, session, all_tradecenters_response,
                   filtered_tradecenter_ids, collected_data, error_log, data_file,
                   query_shares_template>>

\* Lines 54-58, up to the suspension in session.post: the id is written into
\* the shared query and the request body is serialised from it.  Tasks take
\* their first step in the order gather created them.
FetchStart(i) ==
    /\ tasks[i].pc = "ready"
    /\ \A j \in 1 .. (i - 1) : tasks[j].pc # "ready"
    /\ all_products_in_store_query' = Some(tasks[i].tradecenter_id)
    /\ tasks' = SetTask(i, [tasks[i] EXCEPT !.pc = "awaiting",
                                            !.sent = all_products_in_store_query'])
    /\ requests' = Append(requests, [method |-> "POST",
                                     storeId |-> all_products_in_store_query'])
    /\ ALL_PRODUCTS_IN_STORE_QUERY' =
          IF query_shares_template
          THEN [ALL_PRODUCTS_IN_STORE_QUERY EXCEPT
                   !.variables.storeId = Some(tasks[i].tradecenter_id)]
          ELSE ALL_PRODUCTS_IN_STORE_QUERY
    /\ UNCHANGED <<mainPc, collectPc, session, all_tradecenters_response,
                   filtered_tradecenter_ids, collected_data, error_log, data_file,
                   query_shares_template>>

\* Lines 60-83: status 200; the comprehension either builds the whole list,
\* which is then stored under the store's key, or raises.
FetchOk(i, body) ==
    IF Parses(body)
    THEN /\ collected_data' =
              [k \in DOMAIN collected_data \cup {Key(tasks[i].tradecenter_id)} |->
                  IF k = Key(tasks[i].tradecenter_id)
                  THEN ProductRecords(body.data)
                  ELSE collected_data[k]]
         /\ tasks' = SetTask(i, [tasks[i] EXCEPT
                !.pc = "returned", !.response = [status |-> OK, body |-> body]])
         /\ UNCHANGED error_log
    ELSE /\ tasks' = SetTask(i, [tasks[i] EXCEPT
                !.pc = "raised", !.response = [status |-> OK, body |-> body]])
         /\ UNCHANGED <<collected_data, error_log>>

\* An error branch that also leaves an empty list under the store's key.
FetchErrorStoresEmpty(i, status, body) ==
    /\ error_log' = error_log \cup
          {[source |-> "_fetch_products_for_tradecenter", status |-> status,
            tradecenter_id |-> Some(tasks[i].tradecenter_id),
            query |-> all_products_in_store_query]}
    /\ tasks' = SetTask(i, [tasks[i] EXCEPT
           !.pc = "returned", !.response = [status |-> status, body |-> body]])
    /\ collected_data' =
         [k \in DOMAIN collected_data \cup {Key(tasks[i].tradecenter_id)} |->
             IF k = Key(tasks[i].tradecenter_id) THEN <<>> ELSE collected_data[k]]

\* An error branch that raises after logging instead of returning.
FetchErrorRaises(i, status, body) ==
    /\ error_log' = error_log \cup
          {[source |-> "_fetch_products_for_tradecenter", status |-> status,
            tradecenter_id |-> Some(tasks[i].tradecenter_id),
            query |-> all_products_in_store_query]}
    /\ tasks' = SetTask(i, [tasks[i] EXCEPT
           !.pc = "raised", !.response = [status |-> status, body |-> body]])
    /\ UNCHANGED collected_data

\* Lines 84-93: another status; the error is logged with the query dict as
\* it is now, and the coroutine returns.
FetchError(i, status, body) ==
    /\ error_log' = error_log \cup
          {[source |-> "_fetch_products_for_tradecenter", status |-> status,
            tradecenter_id |-> Some(tasks[i].tradecenter_id),
            query |-> all_products_in_store_query]}
    /\ tasks' = SetTask(i, [tasks[i] EXCEPT
           !.pc = "returned", !.response = [status |-> status, body |-> body]])
    /\ UNCHANGED collected_data

\* The POST of task i completes with this response: lines 59-93.  No
\* response can arrive before every task has taken its first step.
Respond(i, status, body) ==
    /\ tasks[i].pc = "awaiting"
    /\ \A j \in 1 .. Len(tasks) : tasks[j].pc # "ready"
    /\ IF status = OK THEN FetchOk(i, body) ELSE FetchError(i, status, body)
    /\ UNCHANGED <<mainPc, collectPc, session, all_tradecenters_response,
                   filtered_tradecenter_ids, all_products_in_store_query,
                   requests, data_file, template_vars>>

\* The POST of task i fails in the network: session.post or json() raises.
FetchFails(i) ==
    /\ tasks[i].pc = "awaiting"
    /\ \A j \in 1 .. Len(tasks) : tasks[j].pc # "ready"
    /\ tasks' = SetTask(i, [tasks[i] EXCEPT !.pc = "raised"])
    /\ UNCHANGED <<mainPc, collectPc, session, all_tradecenters_response,
                   filtered_tradecenter_ids, all_products_in_store_query,
                   collected_data, error_log, requests, data_file, template_vars>>

FetchResponse(i) ==
    \/ \E body \in CatalogBodies : Respond(i, OK, body)
    \/ \E status \in StoreStatuses \ {OK}, body \in ErrorBodies :
          Respond(i, status, body)

----------------------------------------------------------------------------
(* asyncio.gather at lines 147-152 *)

\* A wait that ends with the first task that returns.
GatherReturnFirstCompleted ==
    /\ collectPc = "gather"
    /\ \E i \in 1 .. Len(tasks) : tasks[i].pc = "returned"
    /\ CollectReturns
    /\ UNCHANGED <<all_tradecenters_response, filtered_tradecenter_ids,
                   all_products_in_store_query, tasks, collected_data,
                   error_log, requests, data_file, template_vars>>

\* A wait that gives up on the pending tasks, as with a timeout.
GatherReturnOnTimeout ==
    /\ collectPc = "gather"
    /\ CollectReturns
    /\ UNCHANGED <<all_tradecenters_response, filtered_tradecenter_ids,
                   all_products_in_store_query, tasks, collected_data,
                   error_log, requests, data_file, template_vars>>

\* Every task returned: gather's result is set and collect_data returns.
GatherReturn ==
    /\ collectPc = "gather"
    /\ \A i \in 1 .. Len(tasks) : tasks[i].pc = "returned"
    /\ CollectReturns
    /\ UNCHANGED <<all_tradecenters_response, filtered_tradecenter_ids,
                   all_products_in_store_query, tasks, collected_data,
                   error_log, requests, data_file, template_vars>>

\* A gather that collects the exceptions of the tasks as results, as with
\* return_exceptions=True: collect_data returns once every task has ended.
GatherRaiseSwallowed ==
    /\ collectPc = "gather"
    /\ \E i \in 1 .. Len(tasks) : tasks[i].pc = "raised"
    /\ \A i \in 1 .. Len(tasks) : tasks[i].pc \in {"returned", "raised"}
    /\ CollectReturns
    /\ UNCHANGED <<all_tradecenters_response, filtered_tradecenter_ids,
                   all_products_in_store_query, tasks, collected_data,
                   error_log, requests, data_file, template_vars>>

\* gather is called without return_exceptions: the first exception of a task
\* is set on gather's future at once, the other tasks are left running.
GatherRaise ==
    /\ collectPc = "gather"
    /\ \E i \in 1 .. Len(tasks) : tasks[i].pc = "raised"
    /\ CollectRaises
    /\ UNCHANGED <<all_tradecenters_response, filtered_tradecenter_ids,
                   all_products_in_store_query, tasks, collected_data,
                   error_log, requests, data_file, template_vars>>

\* main.py:29: asyncio.run cancels the tasks still pending when main ended.
CancelPending ==
    /\ mainPc = "aborted"
    /\ \E i \in 1 .. Len(tasks) : ~Settled(tasks[i])
    /\ tasks' = [i \in 1 .. Len(tasks) |->
                    IF Settled(tasks[i]) THEN tasks[i]
                    ELSE [tasks[i] EXCEPT !.pc = "cancelled"]]
    /\ UNCHANGED <<mainPc, collectPc, session, all_tradecenters_response,
                   filtered_tradecenter_ids, all_products_in_store_query,
                   collected_data, error_log, requests, data_file, template_vars>>

----------------------------------------------------------------------------
(* dump_data, lines 163-167 *)

dump_data ==
    /\ mainPc = "dump"
    /\ data_file' = [written |-> TRUE, content |-> collected_data]
    /\ mainPc' = "done"
    /\ UNCHANGED <<collectPc, session, all_tradecenters_response,
                   filtered_tradecenter_ids, all_products_in_store_query, tasks,
                   collected_data, error_log, requests, template_vars>>

----------------------------------------------------------------------------

Next ==
    \/ StartCollect
    \/ DirectoryResponse
    \/ \E i \in 1 .. Len(tasks) : FetchStart(i)
    \/ \E i \in 1 .. Len(tasks) : FetchResponse(i)
    \/ \E i \in 1 .. Len(tasks) : FetchFails(i)
    \/ GatherReturn
    \/ GatherRaise
    \/ CancelPending
    \/ dump_data

Spec == Init /\ [][Next]_vars

\* The event loop runs every task that is ready to run: the steps that wait
\* for no response are taken.  Nothing makes the network answer.
FairSpec ==
    /\ Spec
    /\ WF_vars(StartCollect)
    /\ WF_vars(\E i \in 1 .. Len(tasks) : FetchStart(i))
    /\ WF_vars(GatherReturn)
    /\ WF_vars(GatherRaise)
    /\ WF_vars(CancelPending)
    /\ WF_vars(dump_data)

----------------------------------------------------------------------------
(* Price normalisation on its own: one fetch, for store 1, is waiting for   *)
(* its response, and the response carries any of the priced products.      *)

PriceInit ==
    /\ mainPc = "collect"
    /\ collectPc = "gather"
    /\ session = "open"
    /\ all_tradecenters_response =
          [status |-> OK, body |-> JsonBody(<<[store_id |-> 1, city |-> CityOf(1)]>>)]
    /\ filtered_tradecenter_ids = <<1>>
    /\ all_products_in_store_query = Some(1)
    /\ tasks = <<[NewTask(1) EXCEPT !.pc = "awaiting", !.sent = Some(1)]>>
    /\ collected_data = <<>>
    /\ error_log = {}
    /\ requests = <<[method |-> "GET", storeId |-> Null],
                    [method |-> "POST", storeId |-> Some(1)]>>
    /\ data_file = [written |-> FALSE, content |-> <<>>]
    /\ ALL_PRODUCTS_IN_STORE_QUERY = QueryTemplate
    /\ query_shares_template = DeepCopyShares

PriceNext == \E body \in PricedBodies : Respond(1, OK, body)

PriceSpec == PriceInit /\ [][PriceNext]_vars

----------------------------------------------------------------------------
(* Shorthands of the claims *)

Tasks == 1 .. Len(tasks)

\* The response of task i has status 200 and a body of the expected shape.
WellFormed200(i) ==
    /\ tasks[i].response.status = 200
    /\ tasks[i].response.body.json
    /\ \A k \in DOMAIN tasks[i].response.body.data :
          tasks[i].response.body.data[k].stocks # <<>>

\* The response of task i has a status other than 200.
Non200(i) == tasks[i].response.status \notin {0, 200}

\* Value v lists one record per product of task i's response, in its order.
MirrorsResponse(v, i) ==
    /\ Len(v) = Len(tasks[i].response.body.data)
    /\ \A k \in 1 .. Len(v) :
          /\ v[k].id = tasks[i].response.body.data[k].id
          /\ v[k].name = tasks[i].response.body.data[k].name
          /\ v[k].brand = tasks[i].response.body.data[k].manufacturer.name

----------------------------------------------------------------------------
(* The claims *)

\* C1: at every moment of a run, every key of collected_data is
\* "tradecenter {id}" for a filtered store id one of whose fetches got
\* status 200 with a well-formed body; a store with no such fetch is not a
\* key, whatever the value.
C1_KeysAreSuccessfulStores ==
    \A key \in DOMAIN collected_data :
        \E i \in Tasks :
            /\ key = <<"tradecenter", tasks[i].tradecenter_id>>
            /\ \E n \in DOMAIN filtered_tradecenter_ids :
                  filtered_tradecenter_ids[n] = tasks[i].tradecenter_id
            /\ WellFormed200(i)

\* A store's products are collected while the fetch of another store has
\* failed with another status.
C1_Witness ==
    \E i, j \in Tasks :
        /\ tasks[i].tradecenter_id # tasks[j].tradecenter_id
        /\ WellFormed200(i)
        /\ Non200(j)
        /\ tasks[j].pc = "returned"
        /\ DOMAIN collected_data = {<<"tradecenter", tasks[i].tradecenter_id>>}

\* C2: when collect_data returns, and every response was 200 and well formed
\* or another status, the keys of collected_data are exactly those of the
\* stores that answered 200, and each value lists one record per product of
\* a 200 response of that store, in upstream order, whatever the other
\* stores answered.
C2_ReturnedDataMirrorsResponses ==
    collectPc = "returned" =>
        /\ DOMAIN collected_data =
              {<<"tradecenter", tasks[i].tradecenter_id>> :
                  i \in {j \in Tasks : tasks[j].response.status = 200}}
        /\ \A i \in Tasks :
              tasks[i].response.status = 200 =>
                  \E j \in Tasks :
                      /\ tasks[j].tradecenter_id = tasks[i].tradecenter_id
                      /\ tasks[j].response.status = 200
                      /\ MirrorsResponse(
                             collected_data[<<"tradecenter", tasks[i].tradecenter_id>>], j)

\* Two fetches, one answered 200 with two different products and one
\* answered 404: one key, two records.
C2_Witness ==
    /\ collectPc = "returned"
    /\ Len(tasks) = 2
    /\ \E i, j \in Tasks :
          /\ tasks[i].response.status = 200
          /\ Len(tasks[i].response.body.data) = 2
          /\ tasks[i].response.body.data[1] # tasks[i].response.body.data[2]
          /\ tasks[j].response.status = 404
          /\ DOMAIN collected_data = {<<"tradecenter", tasks[i].tradecenter_id>>}
          /\ Len(collected_data[<<"tradecenter", tasks[i].tradecenter_id>>]) = 2


\* C3: a fetch that got status 200 with a malformed body logs the error,
\* leaves its store's key absent and returns; no exception reaches the
\* caller.
C3_MalformedBodyIsLoggedNotRaised ==
    \A i \in Tasks :
        (tasks[i].response.status = 200 /\ ~WellFormed200(i)) =>
            /\ tasks[i].pc = "returned"
            /\ \E e \in error_log : e.tradecenter_id = <<tasks[i].tradecenter_id>>
            /\ collectPc # "raised"

\* The directory answered 200 with a list, so the fetches were launched.
Launched ==
    /\ all_tradecenters_response.status = 200
    /\ all_tradecenters_response.body.json

\* Every launched fetch got a response: 200 and well formed, or not 200.
AllAnswered == Launched /\ \A i \in Tasks : Non200(i) \/ WellFormed200(i)

\* C4: a fetch that gets a status other than 200 logs it and returns; when
\* every fetch got such a status or a well-formed 200, collect_data does not
\* raise, and main goes on to write the output file and finishes.
C4_Non200NeverPreventsDump ==
    /\ [](\A i \in Tasks :
            Non200(i) =>
                /\ tasks[i].pc = "returned"
                /\ \E e \in error_log :
                      /\ e.tradecenter_id = <<tasks[i].tradecenter_id>>
                      /\ e.status = tasks[i].response.status)
    /\ [](AllAnswered => (collectPc # "raised" /\ mainPc # "aborted"))
    /\ (AllAnswered ~> (mainPc = "done" /\ data_file.written))

\* Both fetches of a run got 404 and the (empty) output was written.
C4_Witness ==
    /\ Len(tasks) = 2
    /\ \A i \in Tasks : Non200(i)
    /\ mainPc = "done"
    /\ data_file = [written |-> TRUE, content |-> <<>>]

\* The directory answered with a status other than 200.
DirectoryFailed == all_tradecenters_response.status \notin {0, 200}

\* C5: when the directory answers with a status other than 200,
\* collect_data logs the error and returns without raising, no POST is
\* issued, collected_data stays empty, and dump_data then writes the empty
\* mapping.
C5_DirectoryFailureDumpsEmpty ==
    /\ [](DirectoryFailed =>
            /\ collectPc = "returned"
            /\ mainPc \in {"dump", "done"}
            /\ \E e \in error_log :
                  /\ e.source = "collect_data"
                  /\ e.status = all_tradecenters_response.status
            /\ tasks = <<>>
            /\ \A r \in DOMAIN requests : requests[r].method # "POST"
            /\ collected_data = <<>>
            /\ data_file.content = <<>>)
    /\ (DirectoryFailed ~> (mainPc = "done" /\ data_file.written))

\* The directory answered 500, although with a list naming a target store,
\* and the empty mapping was written.
C5_Witness ==
    /\ all_tradecenters_response.status = 500
    /\ \E k \in DOMAIN all_tradecenters_response.body.data :
          all_tradecenters_response.body.data[k].city = "Moskva"
    /\ mainPc = "done"
    /\ data_file = [written |-> TRUE, content |-> <<>>]
    /\ Len(requests) = 1

\* C6: dump_data does not start while a launched fetch has neither
\* completed nor failed.
C6_DumpAfterEveryFetch ==
    (mainPc \in {"dump", "done"} \/ data_file.written) =>
        \A i \in Tasks : tasks[i].pc \in {"returned", "raised"}

\* The output was written after two fetches had completed.
C6_Witness ==
    /\ data_file.written
    /\ Len(tasks) = 2
    /\ \A i \in Tasks : tasks[i].pc = "returned"

\* C7: once the fetches are launched, collect_data neither returns nor
\* raises (and so does not close the session) before every launched fetch
\* has settled, also when a fetch raises.
C7_ResumesAfterEveryFetchSettled ==
    (Launched /\ (collectPc \in {"returned", "raised"} \/ session = "closed")) =>
        \A i \in Tasks : tasks[i].pc \in {"returned", "raised"}

\* C8: the fetches launched in one run target pairwise distinct keys.
C8_DistinctKeys ==
    \A i, j \in Tasks :
        i # j => <<"tradecenter", tasks[i].tradecenter_id>>
                    # <<"tradecenter", tasks[j].tradecenter_id>>

\* C9: every record stored for a product has, when the product's
\* stocks[0] old_price is null, its price as regular_price and null as
\* promotional_price, and otherwise its old_price as regular_price and its
\* price as promotional_price.
C9_PriceNormalization ==
    \A i \in Tasks :
        tasks[i].pc = "returned" =>
            \A k \in DOMAIN tasks[i].response.body.data :
                IF tasks[i].response.body.data[k].stocks[1].prices.old_price = <<>>
                THEN /\ collected_data[<<"tradecenter", tasks[i].tradecenter_id>>][k].regular_price
                          = tasks[i].response.body.data[k].stocks[1].prices.price
                     /\ collected_data[<<"tradecenter", tasks[i].tradecenter_id>>][k].promotional_price
                          = <<>>
                ELSE /\ collected_data[<<"tradecenter", tasks[i].tradecenter_id>>][k].regular_price
                          = tasks[i].response.body.data[k].stocks[1].prices.old_price
                     /\ collected_data[<<"tradecenter", tasks[i].tradecenter_id>>][k].promotional_price
                          = tasks[i].response.body.data[k].stocks[1].prices.price

\* A stored list with a product at its regular price and a product
\* discounted from the old price 0.
C9_Witness ==
    /\ tasks[1].pc = "returned"
    /\ Len(tasks[1].response.body.data) = 2
    /\ tasks[1].response.body.data[1].stocks[1].prices = [price |-> <<1>>, old_price |-> <<>>]
    /\ tasks[1].response.body.data[2].stocks[1].prices = [price |-> <<2>>, old_price |-> <<0>>]
    /\ collected_data[<<"tradecenter", 1>>][1].promotional_price = <<>>
    /\ collected_data[<<"tradecenter", 1>>][2].regular_price = <<0>>

\* The store ids the directory response lists for a target city.
TargetIds ==
    {all_tradecenters_response.body.data[k].store_id :
        k \in {n \in DOMAIN all_tradecenters_response.body.data :
                  all_tradecenters_response.body.data[n].city
                      \in {"Moskva", "Sankt-Peterburg"}}}

\* C10: on a 200 directory response, the stores a fetch is launched for are
\* exactly the listed stores of Moskva and Sankt-Peterburg: no other store
\* is ever requested, and once the fetches have started each of them has
\* been requested.
C10_FilteredByTargetCities ==
    Launched =>
        /\ {tasks[i].tradecenter_id : i \in Tasks} = TargetIds
        /\ \A r \in DOMAIN requests :
              requests[r].method = "POST" =>
                  \E n \in TargetIds : requests[r].storeId = <<n>>
        /\ (\A i \in Tasks : tasks[i].pc # "ready") =>
              \A n \in TargetIds :
                  \E r \in DOMAIN requests :
                      requests[r] = [method |-> "POST", storeId |-> <<n>>]

\* The directory listed a store of Sankt-Peterburg and one of Paris, and
\* only the former was requested.
C10_Witness ==
    /\ Launched
    /\ {all_tradecenters_response.body.data[k].city :
            k \in DOMAIN all_tradecenters_response.body.data}
          = {"Sankt-Peterburg", "Paris"}
    /\ Len(tasks) = 1
    /\ Len(requests) = 2
    /\ requests[2].method = "POST"

\* C11: every request of a run, the directory GET and each POST, is issued
\* on the one session while it is open; whenever collect_data has exited, by
\* the early return, by the return after the gather or by an exception, the
\* session is closed, and a closed session stays closed.
C11_SessionReleasedOnEveryExit ==
    /\ [](collectPc \in {"returned", "raised"} => session = "closed")
    /\ [][requests' # requests => session' = "open"]_vars
    /\ [][session = "closed" => session' = "closed"]_vars

\* collect_data was left by the exception of one fetch while the other
\* fetch had returned, and the session is closed.
C11_Witness ==
    /\ collectPc = "raised"
    /\ session = "closed"
    /\ Len(requests) = 3
    /\ \E i, j \in Tasks : tasks[i].pc = "raised" /\ tasks[j].pc = "returned"

\* Some fetch has raised.
SomeFetchRaised == \E i \in Tasks : tasks[i].pc = "raised"

\* C12: an exception raised in a fetch is caught nowhere: it leaves
\* collect_data and main, dump_data is never run, and no output is written,
\* not even for a store whose fetch had succeeded.
C12_FetchExceptionAbortsRun ==
    /\ [](SomeFetchRaised => (mainPc \notin {"dump", "done"} /\ ~data_file.written))
    /\ [](mainPc = "aborted" => ~data_file.written)
    /\ (SomeFetchRaised ~> (collectPc = "raised" /\ mainPc = "aborted"))

\* The run was aborted by the exception of one fetch after another store's
\* products had been collected; nothing was written.
C12_Witness ==
    /\ mainPc = "aborted"
    /\ ~data_file.written
    /\ \E i, j \in Tasks :
          /\ tasks[i].pc = "raised"
          /\ WellFormed200(j)
          /\ <<"tradecenter", tasks[j].tradecenter_id>> \in DOMAIN collected_data

\* The positions in requests of the requests equal to r.
RequestsOf(r) == {n \in DOMAIN requests : requests[n] = r}

\* C13: a run issues exactly one directory GET and exactly one POST for
\* each identifier the filter yields; no request is ever repeated, after a
\* failed response or otherwise.
C13_OneRequestEach ==
    /\ Cardinality(RequestsOf([method |-> "GET", storeId |-> <<>>]))
          = (IF mainPc = "start" THEN 0 ELSE 1)
    /\ \A n \in DOMAIN requests :
          requests[n].method = "POST" =>
              Cardinality(RequestsOf(requests[n])) = 1
    /\ (\A i \in Tasks : tasks[i].pc # "ready") =>
          \A k \in DOMAIN filtered_tradecenter_ids :
              Cardinality(RequestsOf([method |-> "POST",
                                      storeId |-> <<filtered_tradecenter_ids[k]>>])) = 1

\* C14: the body a fetch sends for store X carries storeId X, whatever the
\* other fetches have written into the shared query before or after.
C14_SentBodyCarriesOwnId ==
    /\ \A i \in Tasks :
          tasks[i].pc # "ready" => tasks[i].sent = <<tasks[i].tradecenter_id>>
    /\ \A n \in DOMAIN requests :
          requests[n].method = "POST" =>
              /\ n - 1 \in Tasks
              /\ requests[n].storeId = <<tasks[n - 1].tradecenter_id>>

\* Two fetches for different stores have sent their requests, and the
\* shared query now holds the id of the second.
C14_Witness ==
    /\ Len(tasks) = 2
    /\ tasks[1].tradecenter_id # tasks[2].tradecenter_id
    /\ \A i \in Tasks : tasks[i].pc = "awaiting"
    /\ all_products_in_store_query = <<tasks[2].tradecenter_id>>
    /\ tasks[1].sent # all_products_in_store_query

\* C15: the query written to the error log by the fetch of store X is the
\* one sent for X: its storeId is X.
C15_LoggedQueryIsSentQuery ==
    \A e \in error_log :
        e.source = "_fetch_products_for_tradecenter" => e.query = e.tradecenter_id

\* No request has failed in the network or been answered 200 with a
\* malformed body.
NoBadResponse ==
    /\ collectPc # "raised"
    /\ \A i \in Tasks : tasks[i].pc # "raised"

\* C16: if every request issued is eventually answered, with a well-formed
\* 200 or with another status, the run reaches the end of dump_data; and
\* dump_data is reached only when every launched fetch has got its
\* response: nothing ends the wait for a store that does not answer.
C16_DumpsIffEveryRequestAnswered ==
    /\ (/\ WF_vars(DirectoryResponse)
        /\ WF_vars(\E i \in 1 .. Len(tasks) : FetchResponse(i))
        /\ []NoBadResponse)
          => <>(mainPc = "done" /\ data_file.written)
    /\ [](mainPc \in {"dump", "done"} =>
            \A i \in Tasks : tasks[i].response.status # 0)
    /\ []((\E i \in Tasks : tasks[i].pc = "awaiting") => ~data_file.written)

\* The run ended with the output written after one store had answered 200
\* and the other 404.
C16_Witness ==
    /\ mainPc = "done"
    /\ data_file.written
    /\ {tasks[i].response.status : i \in Tasks} = {200, 404}

\* C17: the module-level query template is never modified by a run: the
\* fetchers write into a deep copy, so its variables.storeId stays None and
\* its other fields stay as config.py defines them.
C17_TemplateNeverModified ==
    ALL_PRODUCTS_IN_STORE_QUERY =
        [query |-> "query Category",
         variables |-> [storeId |-> <<>>, slug |-> "kofe", inStock |-> TRUE,
                        from |-> 0, size |-> 2147483647]]

\* A run has ended after two fetches wrote their ids into the copy, and
\* the template still has no storeId.
C17_Witness ==
    /\ mainPc = "done"
    /\ Len(tasks) = 2
    /\ all_products_in_store_query = <<tasks[2].tradecenter_id>>
    /\ ALL_PRODUCTS_IN_STORE_QUERY.variables.storeId = <<>>

====
